---- MODULE Spec2Model ----
(***************************************************************************)
(* Alternating-optimisation engine of cca_zoo.                             *)
(*                                                                         *)
(* Ten components are modelled; `family` says which one a behaviour        *)
(* instantiates:                                                           *)
(*   "models"  cca_zoo.models._iterative: AltMaxVar / ElasticCCA with      *)
(*             their inner loops (_AltMaxVarLoop, _ElasticInnerLoop)       *)
(*   "stop"    the two _early_stop predicates applied to a given trace     *)
(*   "pmd"     cca_zoo.linear._iterative.SCCA_PMD (validation, sweeps,     *)
(*             re-fit)                                                     *)
(*   "prox"    cca_zoo.linear._iterative.AltMaxVarLoop.training_step       *)
(*   "base"    cca_zoo.models.cca_base._CCA_Base and KCCA: fit, transform, *)
(*             the handling of the caller's arrays (views of n = 2         *)
(*             observations)                                               *)
(*   "grid"    _CCA_Base.gridsearch_fit with _CrossValidate.score          *)
(*   "shape"   array shapes: AltMaxVar._initialization, the inner loop's   *)
(*             weights, MCCA._setup_evp / _solve_evp                       *)
(*   "cfg"     parameter validation: ElasticCCA._check_params and the      *)
(*             linear AltMaxVar._check_params with its proximal registry   *)
(*   "sumcor"  the SUMCOR branch of _ElasticInnerLoop._update_view, on     *)
(*             rationals [num, den]                                        *)
(*   "trace"   the convergence trace of AltMaxVar over repeated fit calls  *)
(*                                                                         *)
(* Numeric abstraction of the first four families.  Every view has n = 1   *)
(* observation and one feature,                                            *)
(* and latent_dims = 1, so a view, a weight, a score and the target are    *)
(* scalars and every formula of the source is evaluated exactly on         *)
(* integers:  ||v|| = |v|,  sqrt(n) = 1,  v / (||v|| / sqrt(n)) = sign(v), *)
(* svd([[r]]) = (sign r, |r|, 1).  IEEE NaN is the value NaN, which        *)
(* propagates through arithmetic and makes every comparison false.         *)
(* Objective values are integers: the AltMaxVar objective is kept times 2  *)
(* (the source divides by 2n), and tolerances are in the same unit.        *)
(***************************************************************************)
EXTENDS Integers, Sequences, FiniteSets, TLC

VARIABLES
    family,     \* which estimator family this behaviour is about
    \* ---- cca_zoo.models._iterative (AltMaxVar, ElasticCCA) ----
    est,        \* the estimator: constructor parameters, weights, track
    views,      \* the views handed to fit
    loop,       \* the inner loop object (self.loop)
    pc,         \* position of fit: "new","target","view","objective","finish","done","raised"
    iter,       \* the loop variable `_` of the inner loop's for
    vi,         \* index of the next view in the sweep (1-based)
    hist        \* history of the current sweep: what each update read

modelVars == <<est, views, loop, pc, iter, vi, hist>>
vars == <<family, est, views, loop, pc, iter, vi, hist>>

------------------------------------------------------------------------------
(* Bounds of the model *)
NumViews == 2
MaxIter == 3
MaxTol == 2

(* IEEE NaN (np.nan) *)
NaN == -99

ViewIds == 1..NumViews
Finite == -1..1
Val == Finite \cup {NaN}

IsNaN(v) == v = NaN
Abs(v) == IF v < 0 THEN -v ELSE v
Sign(v) == IF v > 0 THEN 1 ELSE IF v < 0 THEN -1 ELSE 0

Mul(a, b) == IF IsNaN(a) \/ IsNaN(b) THEN NaN ELSE a * b
Add(a, b) == IF IsNaN(a) \/ IsNaN(b) THEN NaN ELSE a + b
Sub(a, b) == IF IsNaN(a) \/ IsNaN(b) THEN NaN ELSE a - b
\* a < b in IEEE arithmetic: false when either side is NaN
Less(a, b) == ~IsNaN(a) /\ ~IsNaN(b) /\ a < b

RECURSIVE SumTo(_, _)
SumTo(f, k) == IF k = 0 THEN 0 ELSE Add(SumTo(f, k - 1), f[k])
\* scores.sum(axis=0)
SumViews(f) == SumTo(f, NumViews)
\* np.isnan(self.scores).sum()
NanCount(f) == Cardinality({i \in ViewIds : IsNaN(f[i])})
\* v / (np.linalg.norm(v) / np.sqrt(n)) for n = 1: 0/0 and NaN give NaN
UnitScale(v) == IF IsNaN(v) \/ v = 0 THEN NaN ELSE Sign(v)
\* Python's negative index: scores[view_index - 1] with view_index = 0 is the last view
PrevView(i) == IF i = 1 THEN NumViews ELSE i - 1

\* History of the current sweep (not program state): the scores at its start, the
\* target each view's update read, how often the target was computed, the views
\* updated and skipped so far; `degenerate` holds the views whose update returned an
\* all-zero or NaN weight at any time of this fit.
NoHist == [start |-> [i \in ViewIds |-> 0], read |-> [i \in ViewIds |-> 0],
           targets |-> 0, updated |-> {}, skipped |-> {}, degenerate |-> {}]

------------------------------------------------------------------------------
(* cca_zoo.models._iterative *)

\* a loop built with a budget other than the estimator's max_iter
SetLoopParamsOwnBudget(e) ==
    [max_iter |-> e.max_iter + 1, tol |-> e.tol, maxvar |-> e.maxvar,
     track |-> [converged |-> FALSE, objective |-> <<>>],
     weights |-> [i \in ViewIds |-> 0], scores |-> [i \in ViewIds |-> 0], G |-> 0]

\* the new loop takes over the track the estimator holds
SetLoopParamsKeepsTrack(e) ==
    [max_iter |-> e.max_iter, tol |-> e.tol, maxvar |-> e.maxvar,
     track |-> e.track,
     weights |-> [i \in ViewIds |-> 0], scores |-> [i \in ViewIds |-> 0], G |-> 0]

\* AltMaxVar._set_loop_params / ElasticCCA._set_loop_params
SetLoopParams(e) ==
    [max_iter |-> e.max_iter, tol |-> e.tol, maxvar |-> e.maxvar,
     track |-> [converged |-> FALSE, objective |-> <<>>],
     weights |-> [i \in ViewIds |-> 0], scores |-> [i \in ViewIds |-> 0], G |-> 0]

\* _AltMaxVarLoop._update_target: R = scores.sum(axis=0); U, _, Vt = svd(R); G = U @ Vt.
\* The values G can take: the sign of R for a 1x1 R, either sign for R = 0.
TargetOutcomes(scores) ==
    LET R == SumViews(scores)
    IN  IF IsNaN(R) THEN {NaN} ELSE IF R = 0 THEN {-1, 1} ELSE {Sign(R)}
\* np.linalg.svd may raise LinAlgError instead when R holds NaN
TargetMayRaise(scores) == IsNaN(SumViews(scores))

\* a Jacobi target: built from the scores the sweep started with
ElasticTargetJacobi(lp, i) ==
    IF lp.maxvar THEN UnitScale(SumViews(hist.start)) ELSE hist.start[PrevView(i)]

\* _ElasticInnerLoop._update_view, lines 297-302: the regression target of view i
ElasticTarget(lp, i) ==
    IF lp.maxvar THEN UnitScale(SumViews(lp.scores)) ELSE lp.scores[PrevView(i)]

\* _check_converged_weights(weights, view_index): raises when the weights are all zero
CheckConvergedWeightsRaises(w) == ~IsNaN(w) /\ w = 0

\* _ElasticInnerLoop._update_view, lines 308-313: SUMCOR rescaling of the solved weight
SumcorRescale(x, w) ==
    LET nrm == IF IsNaN(Mul(x, w)) THEN NaN ELSE Abs(Mul(x, w))
    IN  IF IsNaN(nrm) THEN NaN ELSE IF nrm = 0 THEN NaN ELSE Sign(w)

\* _AltMaxVarLoop._objective, times 2n
AltMaxVarObjective(lp, vs, cost) ==
    LET term(i) == LET r == Sub(Mul(vs[i], lp.weights[i]), lp.G) IN Mul(r, r)
        t == [i \in ViewIds |-> term(i)]
    IN  Add(SumViews(t), 2 * cost)

\* the literal 1e-9 of _AltMaxVarLoop._early_stop: for integer d, d < 1e-9 iff d < 1
AltMaxVarStopThreshold == 1

\* _AltMaxVarLoop._early_stop
AltMaxVarEarlyStop(lp) ==
    LET o == lp.track.objective
    IN  Less(Sub(o[Len(o) - 1], o[Len(o)]), AltMaxVarStopThreshold)

\* a signed test in place of the absolute difference
ElasticEarlyStopSigned(lp) ==
    LET o == lp.track.objective
    IN  Less(Sub(o[Len(o) - 1], o[Len(o)]), lp.tol)

\* _ElasticInnerLoop._early_stop
ElasticEarlyStop(lp) ==
    LET o == lp.track.objective
        d == Sub(o[Len(o) - 1], o[Len(o)])
    IN  Less(IF IsNaN(d) THEN NaN ELSE Abs(d), lp.tol)

\* the scores an initializer hands to the loop (rCCA scores, or a callable's)
InitialScoreVals == {-1, 1, NaN}
\* what the caller's view_regs[i](view, G, weights) can return: a zero, a nonzero or
\* a NaN weight
ViewRegOutcomes == {0, 1, NaN}

ModelsInit ==
    /\ views \in [ViewIds -> {-1, 1}]
    /\ \E c \in {"AltMaxVar", "ElasticCCA"}, mv \in BOOLEAN, mi \in 1..MaxIter, t \in 1..MaxTol :
         /\ (c = "AltMaxVar" => mv)
         /\ est = [cls |-> c, maxvar |-> mv, max_iter |-> mi, tol |-> t,
                   weights |-> [i \in ViewIds |-> 0],
                   track |-> [converged |-> FALSE, objective |-> <<>>],
                   warned |-> FALSE, raised |-> "none"]
    /\ loop = SetLoopParams(est)
    /\ pc = "new"
    /\ iter = 0
    /\ vi = 1
    /\ hist = NoHist

\* AltMaxVar._outer_loop lines 69-75 with the prologue of _BaseInnerLoop._fit:
\* a new loop object, the initial scores, _initialize(views)
OuterLoopStart ==
    /\ family = "models"
    /\ pc = "new"
    /\ \E s0 \in [ViewIds -> InitialScoreVals] :
         loop' = [SetLoopParams(est) EXCEPT !.scores = s0]
    /\ pc' = IF est.cls = "AltMaxVar" THEN "target" ELSE "view"
    /\ iter' = 0
    /\ vi' = 1
    /\ hist' = [NoHist EXCEPT !.start = loop'.scores]
    /\ UNCHANGED <<family, est, views>>

\* _AltMaxVarLoop._inner_iteration line 128: self._update_target()
UpdateTarget ==
    /\ family = "models"
    /\ pc = "target"
    /\ \/ /\ \E g \in TargetOutcomes(loop.scores) :
                loop' = [loop EXCEPT !.G = g]
          /\ pc' = "view"
          /\ hist' = [hist EXCEPT !.targets = @ + 1]
          /\ est' = est
       \/ /\ TargetMayRaise(loop.scores)
          /\ pc' = "raised"
          /\ est' = [est EXCEPT !.raised = "LinAlgError"]
          /\ UNCHANGED <<loop, hist>>
    /\ UNCHANGED <<family, views, iter, vi>>

NextViewPc == IF vi = NumViews THEN "objective" ELSE "view"

\* a view update that also overwrites the shared target
AltMaxVarUpdatedSetsG(lp, i, w) == [lp EXCEPT !.weights[i] = w, !.G = w]

\* _AltMaxVarLoop._update_view: the loop after view_regs[i] returned weight w
AltMaxVarUpdated(lp, i, w) == [lp EXCEPT !.weights[i] = w]

\* _AltMaxVarLoop._inner_iteration lines 129-132 with _update_view: one view of the sweep
AltMaxVarUpdateView ==
    /\ family = "models"
    /\ pc = "view"
    /\ est.cls = "AltMaxVar"
    /\ IF NanCount(loop.scores) = 0
       THEN \E w \in ViewRegOutcomes :
              /\ loop' = AltMaxVarUpdated(loop, vi, w)
              /\ hist' = [hist EXCEPT !.read[vi] = loop.G, !.updated = @ \cup {vi},
                                      !.degenerate = IF w = 0 \/ IsNaN(w) THEN @ \cup {vi} ELSE @]
       ELSE /\ loop' = loop
            /\ hist' = [hist EXCEPT !.skipped = @ \cup {vi}]
    /\ pc' = NextViewPc
    /\ vi' = IF vi = NumViews THEN 1 ELSE vi + 1
    /\ UNCHANGED <<family, est, views, iter>>


\* the opaque regularised-least-squares solver: any finite coefficient for a finite
\* target; for a NaN target it either rejects the input or returns NaN
SolverOutcomes(target) == IF IsNaN(target) THEN {NaN} ELSE Finite
SolverMayRaise(target) == IsNaN(target)

\* _ElasticInnerLoop._update_view: the loop after view i was solved to weight w
ElasticUpdated(lp, vs, i, w) ==
    LET w2 == IF lp.maxvar THEN w ELSE SumcorRescale(vs[i], w)
    IN  [lp EXCEPT !.weights[i] = w2, !.scores[i] = Mul(vs[i], w2)]

\* _ElasticInnerLoop._update_view: one view of the sweep
ElasticUpdateView ==
    /\ family = "models"
    /\ pc = "view"
    /\ est.cls = "ElasticCCA"
    /\ LET target == ElasticTarget(loop, vi)
       IN  \/ /\ SolverMayRaise(target)
              /\ pc' = "raised"
              /\ est' = [est EXCEPT !.raised = "ValueError"]
              /\ hist' = [hist EXCEPT !.read[vi] = target, !.targets = @ + 1]
              /\ UNCHANGED <<loop, vi>>
           \/ \E w \in SolverOutcomes(target) :
                IF ~loop.maxvar /\ CheckConvergedWeightsRaises(w)
                THEN /\ pc' = "raised"
                     /\ est' = [est EXCEPT !.raised = "DegenerateWeightsError"]
                     /\ loop' = [loop EXCEPT !.weights[vi] = w]
                     /\ hist' = [hist EXCEPT !.read[vi] = target, !.targets = @ + 1,
                                             !.degenerate = @ \cup {vi}]
                     /\ vi' = vi
                ELSE /\ loop' = ElasticUpdated(loop, views, vi, w)
                     /\ hist' = [hist EXCEPT !.read[vi] = target, !.targets = @ + 1,
                                             !.updated = @ \cup {vi},
                                             !.degenerate = IF w = 0 \/ IsNaN(w)
                                                            THEN @ \cup {vi} ELSE @]
                     /\ pc' = NextViewPc
                     /\ vi' = IF vi = NumViews THEN 1 ELSE vi + 1
                     /\ est' = est
    /\ UNCHANGED <<family, views, iter>>

\* _ElasticInnerLoop._objective: `for i in range(views)` is handed the list of views,
\* so the call raises TypeError before any term is summed
ElasticObjectiveRaises == TRUE

\* _BaseInnerLoop._fit, the loop body after the sweep: record the objective, test
\* for early stop, count the iteration
RecordObjective(lp, o, cls, it) ==
    LET lp1 == [lp EXCEPT !.track.objective = Append(@, o)]
        stop == it > 0 /\ (IF cls = "AltMaxVar" THEN AltMaxVarEarlyStop(lp1)
                                               ELSE ElasticEarlyStop(lp1))
    IN  [lp1 EXCEPT !.track.converged = stop]

EndIteration ==
    /\ family = "models"
    /\ pc = "objective"
    /\ IF est.cls = "ElasticCCA" /\ ElasticObjectiveRaises
       THEN /\ pc' = "raised"
            /\ est' = [est EXCEPT !.raised = "TypeError"]
            /\ UNCHANGED <<loop, iter, hist>>
       ELSE /\ \E cost \in 0..1 :
                 loop' = RecordObjective(loop, AltMaxVarObjective(loop, views, cost),
                                         est.cls, iter)
            /\ iter' = iter + 1
            /\ pc' = IF loop'.track.converged \/ iter' >= loop.max_iter
                     THEN "finish"
                     ELSE IF est.cls = "AltMaxVar" THEN "target" ELSE "view"
            /\ hist' = IF pc' = "finish" THEN hist
                       ELSE [NoHist EXCEPT !.start = loop'.scores,
                                           !.degenerate = hist.degenerate]
            /\ est' = est
    /\ UNCHANGED <<family, views, vi>>

\* the weights are not copied from the loop
OuterLoopResultKeepsWeights(e, lp) ==
    [e EXCEPT !.track = lp.track, !.warned = ~lp.track.converged]

\* AltMaxVar._outer_loop lines 76-80: the estimator after the loop returned
OuterLoopResult(e, lp) ==
    [e EXCEPT !.weights = lp.weights, !.track = lp.track,
              !.warned = ~lp.track.converged]

OuterLoopFinish ==
    /\ family = "models"
    /\ pc = "finish"
    /\ est' = OuterLoopResult(est, loop)
    /\ pc' = "done"
    /\ UNCHANGED <<family, views, loop, iter, vi, hist>>

------------------------------------------------------------------------------
(* The _early_stop predicates on a given trace *)

StopInit ==
    /\ views = [i \in ViewIds |-> 1]
    /\ \E c \in {"AltMaxVar", "ElasticCCA"}, t \in 1..MaxTol, o \in [1..2 -> (0..MaxTol + 1) \cup {NaN}] :
         /\ est = [cls |-> c, maxvar |-> TRUE, max_iter |-> 2, tol |-> t,
                   weights |-> [i \in ViewIds |-> 0],
                   track |-> [converged |-> FALSE, objective |-> <<>>],
                   warned |-> FALSE, raised |-> "none"]
         /\ loop = [SetLoopParams(est) EXCEPT !.track.objective = o]
    /\ pc = "trace"
    /\ iter = 1
    /\ vi = 1
    /\ hist = NoHist

\* self._early_stop() on the loop's trace
ApplyEarlyStop ==
    /\ family = "stop"
    /\ pc = "trace"
    /\ loop' = [loop EXCEPT !.track.converged =
                   IF est.cls = "AltMaxVar" THEN AltMaxVarEarlyStop(loop)
                                            ELSE ElasticEarlyStop(loop)]
    /\ pc' = "checked"
    /\ UNCHANGED <<family, est, views, iter, vi, hist>>

------------------------------------------------------------------------------
(* cca_zoo.linear._iterative._scca_pmd.SCCA_PMD *)
(* A view of this family has p features of which only the first is not zero: *)
(* its first column is x times a column u that all views share (u is centred  *)
(* and u'u = 1), so a weight vector is a multiple w of the first unit vector  *)
(* and has p rows, a score is the multiple x * w of u, and View' @ score is   *)
(* the product of the two multiples.  tau, the L1 budgets t and the objective *)
(* are kept times 2: TauOne is tau = 1.                                       *)

MaxFits == 2
MaxEpochs == 2

\* tau = 1, the default _check_params hands to _process_parameter
TauOne == 2
\* feature counts p_i (perfect squares: np.sqrt is exact)
FeatureCounts == {1, 4}
ISqrt(p) == CHOOSE r \in 0..p : r * r = p
Max(a, b) == IF a >= b THEN a ELSE b

\* the values the caller can give tau: unset, a scalar, one value per view
TauEntries == {-1, 1, 2, 3}
\* a parameter as given: unset (None), a scalar s, or a list v with one value per view
Unset(d) == [kind |-> "none", s |-> d, v |-> [i \in ViewIds |-> d]]
Scalar(x, d) == [kind |-> "scalar", s |-> x, v |-> [i \in ViewIds |-> d]]
List(l, d) == [kind |-> "list", s |-> d, v |-> l]
TauParams ==
    {Unset(0)}
    \cup {Scalar(s, 0) : s \in TauEntries}
    \cup {List(l, 0) : l \in [ViewIds -> {-1, 1, 2}]}

PmdViews == [ViewIds -> [p : FeatureCounts, x : {-1, 1}]]

\* _process_parameter(name, parameter, default, n_views): one value per view
ProcessParameter(param, default, filler) ==
    List(IF param.kind = "none" THEN [i \in ViewIds |-> default]
         ELSE IF param.kind = "scalar" THEN [i \in ViewIds |-> param.s]
         ELSE param.v, filler)

\* the range test accepts a tau below 0
PmdCheckParamsUpperOnly(e) ==
    LET tau == ProcessParameter(e.tau, TauOne, 0)
        bad == \E i \in ViewIds : tau.v[i] > TauOne
    IN  [e EXCEPT !.warned = (e.tau.kind = "none"),
                  !.tau = tau,
                  !.raised = IF bad THEN "ValueError" ELSE "none",
                  !.positive = IF bad THEN @ ELSE ProcessParameter(@, FALSE, FALSE)]

\* SCCA_PMD._check_params: the estimator after the call (raised: the error it raised)
PmdCheckParams(e) ==
    LET tau == ProcessParameter(e.tau, TauOne, 0)
        bad == \E i \in ViewIds : tau.v[i] < 0 \/ tau.v[i] > TauOne
    IN  [e EXCEPT !.warned = (e.tau.kind = "none"),
                  !.tau = tau,
                  !.raised = IF bad THEN "ValueError" ELSE "none",
                  !.positive = IF bad THEN @ ELSE ProcessParameter(@, FALSE, FALSE)]

\* budgets without the floor of 1
PmdBudgetsNoFloor(e) ==
    IF e.t.has THEN e.t
    ELSE [has |-> TRUE,
          v |-> [i \in ViewIds |-> e.tau.v[i] * ISqrt(e.weights[i].rows)]]

\* SCCA_PMD._update_weights lines 58-60: the budgets self.t after the hasattr test
PmdBudgets(e) ==
    IF e.t.has THEN e.t
    ELSE [has |-> TRUE,
          v |-> [i \in ViewIds |-> Max(TauOne, e.tau.v[i] * ISqrt(e.weights[i].rows))]]

\* self.transform(views): views @ weights
PmdScores(e, vs) == [i \in ViewIds |-> Mul(vs[i].x, e.weights[i].w)]

\* the target is the sum of the scores of all views, view i's own included
PmdCandidateKeepsOwnScore(e, vs, i) ==
    LET target == SumViews(PmdScores(e, vs))
        new_weights == Mul(vs[i].x, target)
    IN  IF e.positive.v[i] /\ Less(new_weights, 0) THEN 0 ELSE new_weights

\* SCCA_PMD._update_weights lines 63-72: the candidate of view i (its first entry)
PmdCandidate(e, vs, i) ==
    LET scores == PmdScores(e, vs)
        masked == [j \in ViewIds |-> IF j = i THEN 0 ELSE scores[j]]
        target == SumViews(masked)
        new_weights == Mul(vs[i].x, target)
    IN  IF e.positive.v[i] /\ Less(new_weights, 0) THEN 0 ELSE new_weights

\* _delta_search(w, t, tol): the candidate soft-thresholded and normalised to unit
\* L2 norm with an L1 norm of at most t.  A candidate with one nonzero entry has L1
\* norm 1 once normalised; a zero candidate has no direction.
DeltaSearchOutcomes(c, t) ==
    IF IsNaN(c) THEN {NaN}
    ELSE IF c = 0 THEN {0, NaN}
    ELSE IF t >= TauOne THEN {Sign(c)} ELSE {0}

\* np.corrcoef(x.T, y.T)[:1, 1:] of two scores a * u and b * u: the sign of a * b, and
\* NaN (0 / 0) when one of the scores is constant
PmdCorr(a, b) ==
    IF IsNaN(a) \/ IsNaN(b) THEN NaN ELSE IF a = 0 \/ b = 0 THEN NaN ELSE Sign(a * b)

\* SCCA_PMD._objective lines 81-98, times 2: itertools.product(transformed_views,
\* repeat=2) runs over every ordered pair of views, a view with itself included
PmdObjective(e, vs) ==
    LET scores == PmdScores(e, vs)
        row(i) == SumViews([j \in ViewIds |-> PmdCorr(scores[i], scores[j])])
        all_covs == SumViews([i \in ViewIds |-> row(i)])
        pen == SumViews([i \in ViewIds |->
                  Mul(e.tau.v[i], IF IsNaN(e.weights[i].w) THEN NaN ELSE Abs(e.weights[i].w))])
    IN  Sub(Mul(2, all_covs), pen)

PmdEstimator(tau, pos, ep) ==
    [cls |-> "SCCA_PMD", tau |-> tau, positive |-> Scalar(pos, FALSE),
     epochs |-> ep, t |-> [has |-> FALSE, v |-> [i \in ViewIds |-> 0]],
     weights |-> [i \in ViewIds |-> [rows |-> 1, w |-> 0]],
     track |-> <<>>,
     warned |-> FALSE, raised |-> "none", fits |-> 0]

PmdHist == [start |-> [i \in ViewIds |-> 0], read |-> [i \in ViewIds |-> 0],
            budget |-> [i \in ViewIds |-> 0], updated |-> {},
            given |-> Unset(0)]

PmdInit ==
    /\ \E tau \in TauParams, pos \in BOOLEAN, ep \in 1..MaxEpochs :
         est = PmdEstimator(tau, pos, ep)
    /\ views \in PmdViews
    /\ loop = 0
    /\ pc = "new"
    /\ iter = 0
    /\ vi = 1
    /\ hist = PmdHist

\* BaseEstimator.set_params(tau=...) between two fits
PmdSetParams ==
    /\ family = "pmd"
    /\ pc \in {"fitted", "raised"}
    /\ est.fits < MaxFits
    /\ \E tau \in TauParams : est' = [est EXCEPT !.tau = tau]
    /\ pc' = "new"
    /\ UNCHANGED <<family, views, loop, iter, vi, hist>>

\* fit(views): the call starts, on views of any shape
PmdFit ==
    /\ family = "pmd"
    /\ pc \in {"new", "fitted"}
    /\ est.fits < MaxFits
    /\ views' \in PmdViews
    /\ est' = [est EXCEPT !.fits = @ + 1, !.raised = "none", !.warned = FALSE,
                           !.track = <<>>]
    /\ pc' = "check"
    /\ iter' = 0
    /\ vi' = 1
    /\ hist' = [PmdHist EXCEPT !.given = est.tau]
    /\ UNCHANGED <<family, loop>>

\* fit: self._check_params()
PmdValidate ==
    /\ family = "pmd"
    /\ pc = "check"
    /\ est' = PmdCheckParams(est)
    /\ pc' = IF est'.raised = "none" THEN "init" ELSE "raised"
    /\ UNCHANGED <<family, views, loop, iter, vi, hist>>

\* fit: the initial weights, one vector of p_i rows per view
PmdInitialize ==
    /\ family = "pmd"
    /\ pc = "init"
    /\ est' = [est EXCEPT !.weights = [i \in ViewIds |-> [rows |-> views[i].p, w |-> 1]]]
    /\ pc' = "sweep"
    /\ hist' = [hist EXCEPT !.start = PmdScores(est', views)]
    /\ UNCHANGED <<family, views, loop, iter, vi>>

\* the epoch's objective is appended to the trace once its last view is updated
PmdRecordObjective(e, vs, last) ==
    IF last THEN [e EXCEPT !.track = Append(@, PmdObjective(e, vs))] ELSE e

\* one view of the sweep: self.weights[i] = self._update_weights(views, i); after the
\* last view the objective of the epoch is recorded
PmdUpdateWeights ==
    /\ family = "pmd"
    /\ pc = "sweep"
    /\ LET e1 == [est EXCEPT !.t = PmdBudgets(est)]
           c == PmdCandidate(e1, views, vi)
           last == vi = NumViews
       IN  /\ \E w \in DeltaSearchOutcomes(c, e1.t.v[vi]) :
                est' = PmdRecordObjective([e1 EXCEPT !.weights[vi].w = w], views, last)
           /\ iter' = IF last THEN iter + 1 ELSE iter
           /\ vi' = IF last THEN 1 ELSE vi + 1
           /\ pc' = IF last /\ iter' >= est.epochs THEN "fitted" ELSE "sweep"
           /\ hist' = IF last /\ pc' = "sweep"
                      THEN [hist EXCEPT !.start = PmdScores(est', views), !.updated = {}]
                      ELSE [hist EXCEPT !.budget[vi] = e1.t.v[vi],
                                        !.read[vi] = c,
                                        !.updated = @ \cup {vi}]
    /\ UNCHANGED <<family, views, loop>>

------------------------------------------------------------------------------
(* cca_zoo.linear._iterative._altmaxvar.AltMaxVarLoop *)
(* learning_rate is 1 here, so a gradient step stays on the integers; the     *)
(* proximal operator is L1 with sigma = tau (soft thresholding).              *)

MaxT == 3

\* gamma = 0.1, the default of AltMaxVarLoop.__init__, as GammaNum / GammaDen
GammaNum == 1
GammaDen == 10

\* AltMaxVarLoop.forward: view @ weight for every view
Forward(lp, vs) == [i \in ViewIds |-> Mul(vs[i], lp.weights[i])]

\* AltMaxVarLoop._get_target: the sign of R = gamma * mean + (1 - gamma) * G when the
\* loop already has a G, of R = mean otherwise (R times GammaDen * N resp. N)
GetTargetOutcomes(lp, scores) ==
    LET S == SumViews(scores)
        R == IF lp.hasG
             THEN Add(Mul(GammaNum, S), Mul((GammaDen - GammaNum) * NumViews, lp.G))
             ELSE S
    IN  IF IsNaN(R) THEN {NaN} ELSE IF R = 0 THEN {-1, 1} ELSE {Sign(R)}

\* training_step lines 148-150: weights[i] -= learning_rate * view.T @ (view @ weights[i] - G)
GradientStep(x, w, G, lr) == Sub(w, Mul(lr, Mul(x, Sub(Mul(x, w), G))))

\* pyproximal.L1(sigma).prox(x, tau): soft thresholding at sigma * tau
ProxL1(w, sigma, lr) ==
    LET th == sigma * lr
    IN  IF IsNaN(w) THEN NaN ELSE IF Abs(w) <= th THEN 0 ELSE Sign(w) * (Abs(w) - th)

\* np.allclose(a, b) on integers of this size: equality, false on NaN
AllClose(a, b) == ~IsNaN(a) /\ ~IsNaN(b) /\ a = b

\* prev_weights as line 155 reads it: line 162 stored a reference to the array that
\* line 148 then updated in place, so it holds the post-gradient weights g of this
\* sub-step, not the previous iterate
PrevWeightsRead(previous, g) == g

\* training_step lines 148-163: one gradient-plus-prox sub-step of view i
SubStepResult(lp, x, i) ==
    LET g == GradientStep(x, lp.weights[i], lp.G, lp.learning_rate)
        w == ProxL1(g, lp.sigma[i], lp.learning_rate)
        stop == lp.prevSet /\ AllClose(w, PrevWeightsRead(lp.weights[i], g))
    IN  [lp EXCEPT !.weights[i] = w,
                   !.converged = IF stop THEN TRUE ELSE @,
                   !.prevSet = IF stop THEN @ ELSE TRUE,
                   !.t = IF stop THEN @ ELSE @ + 1]

\* training_step line 146: the while condition
SubLoopRuns(lp) == lp.t < lp.T /\ ~lp.converged

\* AltMaxVar._get_module: a new AltMaxVarLoop around the given weights
GetModule(w0, T, sigma, tracking, checking) ==
    [weights |-> w0, hasG |-> FALSE, G |-> 0, T |-> T, sigma |-> sigma,
     learning_rate |-> 1, tracking |-> tracking, convergence_checking |-> checking,
     converged |-> FALSE, prevSet |-> FALSE, t |-> 0]

ProxHist == [read |-> [i \in ViewIds |-> 0], targets |-> 0, updated |-> {},
             steps |-> [i \in ViewIds |-> 0],
             before |-> [i \in ViewIds |-> 0], after |-> [i \in ViewIds |-> 0],
             firstG |-> 0, firstScores |-> [i \in ViewIds |-> 0]]

ProxInit ==
    /\ views \in [ViewIds -> {1, 2}]
    /\ \E T \in 1..MaxT, sigma \in [ViewIds -> {0, 1}], trk \in BOOLEAN, chk \in BOOLEAN,
          ep \in 1..MaxEpochs :
         /\ est = [cls |-> "AltMaxVar", T |-> T, sigma |-> sigma, track |-> trk,
                   convergence_checking |-> chk, epochs |-> ep, fits |-> 1,
                   raised |-> "none"]
         /\ \E w0 \in [ViewIds -> {0, 1}] : loop = GetModule(w0, T, sigma, trk, chk)
    /\ pc = "step"
    /\ iter = 0
    /\ vi = 1
    /\ hist = ProxHist

\* training_step lines 138-140: the scores, the target, converged = False
ProxStepBegin ==
    /\ family = "prox"
    /\ pc = "step"
    /\ \E g \in GetTargetOutcomes(loop, Forward(loop, views)) :
         /\ loop' = [loop EXCEPT !.G = g, !.hasG = TRUE, !.converged = FALSE,
                                 !.t = 0, !.prevSet = FALSE]
         /\ hist' = [ProxHist EXCEPT !.targets = 1,
                        !.firstG = IF loop.hasG THEN hist.firstG ELSE g,
                        !.firstScores = IF loop.hasG THEN hist.firstScores
                                        ELSE Forward(loop, views)]
    /\ pc' = "sub"
    /\ vi' = 1
    /\ UNCHANGED <<family, est, views, iter>>

\* training_step lines 146-163: one pass of the while loop for view vi
ProxSubStep ==
    /\ family = "prox"
    /\ pc = "sub"
    /\ SubLoopRuns(loop)
    /\ loop' = SubStepResult(loop, views[vi], vi)
    /\ hist' = [hist EXCEPT !.read[vi] = loop.G, !.updated = @ \cup {vi},
                            !.steps[vi] = @ + 1,
                            !.before[vi] = loop.weights[vi],
                            !.after[vi] = loop'.weights[vi]]
    /\ UNCHANGED <<family, est, views, pc, iter, vi>>

\* training_step lines 141-146: the while loop of view vi is over, the for loop goes on
ProxNextView ==
    /\ family = "prox"
    /\ pc = "sub"
    /\ ~SubLoopRuns(loop)
    /\ loop' = [loop EXCEPT !.t = 0, !.prevSet = FALSE]
    /\ pc' = IF vi = NumViews THEN "loss" ELSE "sub"
    /\ vi' = IF vi = NumViews THEN 1 ELSE vi + 1
    /\ UNCHANGED <<family, est, views, iter, hist>>

\* training_step line 167: self.objective(batch["views"]) is called without the
\* scores and weights its signature requires, which raises TypeError
ObjectiveCallRaises == TRUE

\* training_step lines 165-169: the loss, when tracking or convergence checking is on
ProxStepEnd ==
    /\ family = "prox"
    /\ pc = "loss"
    /\ IF (loop.tracking \/ loop.convergence_checking) /\ ObjectiveCallRaises
       THEN /\ pc' = "raised"
            /\ est' = [est EXCEPT !.raised = "TypeError"]
            /\ iter' = iter
       ELSE /\ iter' = iter + 1
            /\ pc' = IF iter' >= est.epochs THEN "fitted" ELSE "step"
            /\ est' = est
    /\ UNCHANGED <<family, views, loop, vi, hist>>

\* a second fit: _get_module builds a new loop, on views of its own
ProxRefit ==
    /\ family = "prox"
    /\ pc = "fitted"
    /\ est.fits < MaxFits
    /\ views' \in [ViewIds -> {1, 2}]
    /\ \E w0 \in [ViewIds -> {0, 1}] :
         loop' = GetModule(w0, est.T, est.sigma, est.track, est.convergence_checking)
    /\ est' = [est EXCEPT !.fits = @ + 1]
    /\ pc' = "step"
    /\ iter' = 0
    /\ vi' = 1
    /\ hist' = ProxHist
    /\ UNCHANGED family

------------------------------------------------------------------------------
(* cca_zoo.models.cca_base._CCA_Base and cca_zoo.models._multiview._mcca.KCCA: *)
(* fit, transform and the caller's arrays.  A view of this family has n = 2    *)
(* observations of one feature, <<a, b>>; a weight is a scalar.                *)

MaxCalls == 2

DataVals == {0, 2}
BaseViews == [ViewIds -> [1..2 -> DataVals]]
\* view.mean(axis=0)
Mean(v) == (v[1] + v[2]) \div 2
\* view - mean: a new array
Centre(v, m) == [r \in 1..2 |-> v[r] - m]

\* _CCA_Base.__init__ (weights_list = None, no view_means) / KCCA.__init__
BaseEstimator(c, copy) ==
    [cls |-> c, copy_data |-> copy, fits |-> 0,
     hasMeans |-> FALSE, view_means |-> [i \in ViewIds |-> 0],
     hasWeights |-> FALSE, weights |-> [i \in ViewIds |-> 0],
     train_views |-> [i \in ViewIds |-> [r \in 1..2 |-> 0]]]

\* history of the calls: the caller's arrays as first handed over, the number of
\* transform calls since the last fit, and for the last two calls the number of views
\* passed, the input, the outcome and the output
NoCall == [k |-> 0, inp |-> [i \in ViewIds |-> [r \in 1..2 |-> 0]], result |-> "none",
           out |-> [i \in ViewIds |-> [r \in 1..2 |-> 0]],
           before |-> BaseEstimator("_CCA_Base", TRUE)]
BaseHist(vs) == [orig |-> vs, calls |-> 0, last |-> NoCall, prev |-> NoCall]

BaseInit ==
    /\ views \in BaseViews
    /\ \E c \in {"_CCA_Base", "KCCA"}, copy \in BOOLEAN : est = BaseEstimator(c, copy)
    /\ loop = 0
    /\ pc = "idle"
    /\ iter = 0
    /\ vi = 1
    /\ hist = BaseHist(views)

\* the caller's arrays after the call handed them over as in-place centring leaves them
InputAfterDemeanInPlace(vs) == [i \in ViewIds |-> Centre(vs[i], Mean(vs[i]))]

\* _CCA_Base.demean_data lines 101-103: view.mean and view - view.mean allocate, the
\* caller's arrays are only read
InputAfterDemean(vs) == vs

\* _check_views(*views, copy=self.copy_data) followed by centring: the values the
\* caller's arrays can hold afterwards ("else, it may be overwritten")
InputsAfterCheckViews(vs, copy) ==
    IF copy THEN {vs} ELSE {vs, [i \in ViewIds |-> Centre(vs[i], Mean(vs[i]))]}

\* fit of a concrete estimator: demean_data stores the means, the solver some weights
\* (KCCA._setup_evp line 166 also keeps the training views)
BaseFit ==
    /\ family = "base"
    /\ est.fits < MaxFits
    /\ \E w \in [ViewIds -> {-1, 1}] :
         est' = [est EXCEPT !.fits = @ + 1, !.hasMeans = TRUE,
                            !.view_means = [i \in ViewIds |-> Mean(views[i])],
                            !.hasWeights = TRUE, !.weights = w,
                            !.train_views = views]
    /\ views' \in (IF est.cls = "_CCA_Base" THEN {InputAfterDemean(views)}
                   ELSE InputsAfterCheckViews(views, est.copy_data))
    /\ hist' = [hist EXCEPT !.calls = 0, !.last = NoCall, !.prev = NoCall]
    /\ UNCHANGED <<family, loop, pc, iter, vi>>

\* the estimator after transform has made a call recentre it on the input
AfterTransformRecentres(e, vs) ==
    [e EXCEPT !.view_means = [i \in ViewIds |-> Mean(vs[i]) + 1]]

\* _CCA_Base.transform lines 54-60: no attribute of self is assigned
AfterTransform(e, vs) == e

\* _CCA_Base.transform line 58: (view - self.view_means[i]) @ self.weights_list[i]
TransformView(e, v, i) ==
    LET c == Centre(v, e.view_means[i]) IN [r \in 1..2 |-> c[r] * e.weights[i]]

\* _CCA_Base.transform on the first k of the caller's views: how the call ends
CcaBaseTransformResult(e, k) ==
    IF k = 0 THEN "ok"
    ELSE IF ~e.hasMeans THEN "AttributeError"
    ELSE IF ~e.hasWeights THEN "TypeError"
    ELSE "ok"

\* KCCA.transform line 183: check_is_fitted(self, attributes=["weights"])
KccaTransformResult(e, k) == IF ~e.hasWeights THEN "NotFittedError" ELSE "ok"

\* KCCA.transform lines 188-194 with the linear kernel: kernel.T @ weights, where the
\* dual weights are the scalar weight on every training observation
KccaTransformView(e, v, i) ==
    LET m == e.view_means[i]
        t == Centre(e.train_views[i], m)
        c == Centre(v, m)
    IN  [r \in 1..2 |-> c[r] * ((t[1] + t[2]) * e.weights[i])]

BaseTransform ==
    /\ family = "base"
    /\ hist.calls < MaxCalls
    /\ \E k \in 0..NumViews :
         LET res == IF est.cls = "_CCA_Base" THEN CcaBaseTransformResult(est, k)
                    ELSE KccaTransformResult(est, k)
             out == [i \in ViewIds |->
                       IF res # "ok" \/ i > k THEN [r \in 1..2 |-> 0]
                       ELSE IF est.cls = "_CCA_Base" THEN TransformView(est, views[i], i)
                       ELSE KccaTransformView(est, views[i], i)]
         IN  /\ hist' = [hist EXCEPT !.calls = @ + 1, !.prev = hist.last,
                            !.last = [k |-> k, inp |-> views, result |-> res,
                                      out |-> out, before |-> est]]
             /\ est' = IF res = "ok" THEN AfterTransform(est, views) ELSE est
             /\ views' \in (IF est.cls = "_CCA_Base" \/ res # "ok" THEN {views}
                            ELSE InputsAfterCheckViews(views, est.copy_data))
    /\ UNCHANGED <<family, loop, pc, iter, vi>>

------------------------------------------------------------------------------
(* cca_zoo.models.cca_base: _CCA_Base.gridsearch_fit and _CrossValidate.score *)
(* Candidate c of the grid sets the hyperparameter to c; a fit stores weights *)
(* that are a function of the hyperparameter it read (here: its value).       *)

NumCandidates == 2
MaxFolds == 2
Candidates == 1..NumCandidates

\* how joblib runs the delayed calls: "process" pickles the bound method cv.score, and
\* with it cv.model, once per call; "thread" runs the calls on the one cv object
Backends == {"process", "thread"}

\* the estimator a worker's cv.model names: its own unpickled copy, or self
WorkerModel(lp, e, c) == IF lp.jobs > 0 /\ lp.backend = "process" THEN lp.copies[c] ELSE e

\* when candidate c may take a step: in any order with jobs > 0, one candidate after
\* the other in the list comprehension of line 144
MayRun(lp, c) ==
    /\ lp.pos[c] # "done"
    /\ (lp.jobs = 0 => \A d \in Candidates : d < c => lp.pos[d] = "done")

GridHist == [setBy |-> 0, fitBy |-> 0,
             fitRead |-> [c \in Candidates |-> 0],
             scoreRead |-> [c \in Candidates |-> [weights |-> 0, fitBy |-> 0]],
             evaluated |-> {}]

\* gridsearch_fit line 139: cv = _CrossValidate(self, folds=folds): one cv object
\* around the estimator itself
GridInit ==
    /\ est = [param |-> 0, weights |-> 0]
    /\ views = [i \in ViewIds |-> 1]
    /\ \E j \in {0, NumCandidates}, b \in Backends, f \in 1..MaxFolds :
         /\ (j = 0 => b = "thread")
         /\ loop = [jobs |-> j, backend |-> b, folds |-> f,
                    copies |-> [c \in Candidates |-> est],
                    pos |-> [c \in Candidates |-> "set"],
                    fold |-> [c \in Candidates |-> 0]]
    /\ pc = "grid"
    /\ iter = 0
    /\ vi = 1
    /\ hist = GridHist

\* the loop and the estimator after worker c stored model m as its cv.model
StoreWorkerModel(lp, e, c, m) ==
    IF lp.jobs > 0 /\ lp.backend = "process"
    THEN <<[lp EXCEPT !.copies[c] = m], e>>
    ELSE <<lp, m>>

\* _CrossValidate.score lines 213/217: self.model.set_params(**cvparams)
GridSetParams ==
    /\ family = "grid"
    /\ pc = "grid"
    /\ \E c \in Candidates :
         /\ MayRun(loop, c)
         /\ loop.pos[c] = "set"
         /\ LET m == [WorkerModel(loop, est, c) EXCEPT !.param = c]
                st == StoreWorkerModel(loop, est, c, m)
            IN  /\ loop' = [st[1] EXCEPT !.pos[c] = "fit"]
                /\ est' = st[2]
         /\ hist' = [hist EXCEPT !.setBy = c]
    /\ UNCHANGED <<family, views, pc, iter, vi>>

\* _CrossValidate.score lines 213/217: .fit(*train_sets)
GridFitFold ==
    /\ family = "grid"
    /\ pc = "grid"
    /\ \E c \in Candidates :
         /\ MayRun(loop, c)
         /\ loop.pos[c] = "fit"
         /\ LET old == WorkerModel(loop, est, c)
                m == [old EXCEPT !.weights = old.param]
                st == StoreWorkerModel(loop, est, c, m)
            IN  /\ loop' = [st[1] EXCEPT !.pos[c] = "predict"]
                /\ est' = st[2]
                /\ hist' = [hist EXCEPT !.fitRead[c] = old.param, !.fitBy = c]
    /\ UNCHANGED <<family, views, pc, iter, vi>>

\* _CrossValidate.score lines 214/219: self.model.predict_corr(*val_sets), then the next
\* fold or the end of the candidate
GridPredict ==
    /\ family = "grid"
    /\ pc = "grid"
    /\ \E c \in Candidates :
         /\ MayRun(loop, c)
         /\ loop.pos[c] = "predict"
         /\ LET last == loop.fold[c] + 1 >= loop.folds
            IN  loop' = [loop EXCEPT !.fold[c] = @ + 1,
                                     !.pos[c] = IF last THEN "done" ELSE "set"]
         /\ hist' = [hist EXCEPT
                        !.scoreRead[c] = [weights |-> WorkerModel(loop, est, c).weights,
                                          fitBy |-> IF loop.jobs > 0 /\ loop.backend = "process"
                                                    THEN c ELSE hist.fitBy],
                        !.evaluated = @ \cup {c}]
    /\ UNCHANGED <<family, est, views, pc, iter, vi>>

\* gridsearch_fit lines 160-161: self.set_params(**param_sets[max_index]); self.fit(*views)
GridRefit ==
    /\ family = "grid"
    /\ pc = "grid"
    /\ \A c \in Candidates : loop.pos[c] = "done"
    /\ \E best \in Candidates : est' = [param |-> best, weights |-> best]
    /\ pc' = "done"
    /\ UNCHANGED <<family, views, loop, iter, vi, hist>>

------------------------------------------------------------------------------
(* Shapes: AltMaxVar._initialization, _AltMaxVarLoop._initialize and           *)
(* MCCA._setup_evp / _solve_evp.  An array is modelled by its shape, a tuple   *)
(* of dimensions; a block of rows by its bounds [lo, hi).                      *)

MaxObs == 2
MaxFeatures == 2
MaxLatent == 3

Schemes == {"random", "uniform", "pls", "cca"}
\* the names a caller can pass: the known ones and others
SchemeNames == Schemes \cup {"orthogonal", "zeros"}

ShapeViews == [ViewIds -> 1..MaxFeatures]

\* AltMaxVar._initialization lines 91-102: the shape of each view's initial scores
InitialScoreShape(scheme, n, k) ==
    IF scheme = "random" THEN <<n>> ELSE <<n, k>>

\* AltMaxVar._initialization lines 104-106: the message of the ValueError, a plain
\* string literal (no f prefix), as the pieces around its braces
ErrorMessage(scheme) ==
    <<"Initialization ", "{type}", " not supported. Pass a generator implementing this method">>

\* _AltMaxVarLoop._initialize: reading self.scores[0].shape[1] of a 1-D array raises
InitializeRaises(scoreShape) == Len(scoreShape) < 2

\* _AltMaxVarLoop._initialize lines 160-162: np.zeros((view.shape[1], scores[0].shape[1]))
InitialWeightShape(p, scoreShape) == <<p, scoreShape[2]>>

\* splits without the leading 0
SplitsNoZero(ps) == [j \in 1..(NumViews + 1) |-> SumTo(ps, IF j > NumViews THEN NumViews ELSE j)]

\* MCCA._setup_evp line 75: np.cumsum([0] + [view.shape[1] for view in views])
Splits(ps) == [j \in 1..(NumViews + 1) |-> SumTo(ps, j - 1)]

Min(a, b) == IF a <= b THEN a ELSE b

\* eigvecs[lo:hi] on an array of `rows` rows: a Python slice clamps to the array
SliceRows(rows, lo, hi) ==
    LET l == Min(lo, rows) h == Min(hi, rows)
    IN  [lo |-> l, hi |-> IF h < l THEN l ELSE h]

\* MCCA._solve_evp line 80: eigh(..., subset_by_index=[n - latent_dims, n - 1]) rejects
\* a negative index
SolveEvpRaises(total, k) == total - k < 0

\* MCCA._solve_evp lines 84-87: the block of rows and the columns of view i's weights
EvpWeights(sp, total, k) ==
    [i \in ViewIds |-> [rows |-> SliceRows(total, sp[i], sp[i + 1]), cols |-> k]]

NoWeights == [i \in ViewIds |-> <<0, 0>>]
NoBlocks == [i \in ViewIds |-> [rows |-> [lo |-> 0, hi |-> 0], cols |-> 0]]

ShapeInit ==
    /\ views \in ShapeViews
    /\ \E c \in {"AltMaxVar", "MCCA"}, sch \in SchemeNames, n \in 1..MaxObs, k \in 1..MaxLatent :
         /\ (c = "MCCA" => sch = "pls")
         /\ est = [cls |-> c, initialization |-> sch, n |-> n, latent_dims |-> k,
                   raised |-> "none", message |-> <<>>,
                   weights |-> NoWeights, blocks |-> NoBlocks, splits |-> <<>>]
    /\ loop = [scores |-> <<>>, weights |-> NoWeights]
    /\ pc = "new"
    /\ iter = 0
    /\ vi = 1
    /\ hist = 0

\* AltMaxVar._initialization(views, self.initialization, ...)
InitializationCall ==
    /\ family = "shape"
    /\ pc = "new"
    /\ est.cls = "AltMaxVar"
    /\ IF est.initialization \in Schemes
       THEN /\ loop' = [loop EXCEPT !.scores =
                           InitialScoreShape(est.initialization, est.n, est.latent_dims)]
            /\ pc' = "scores"
            /\ est' = est
       ELSE /\ est' = [est EXCEPT !.raised = "ValueError",
                                  !.message = ErrorMessage(est.initialization)]
            /\ pc' = "raised"
            /\ loop' = loop
    /\ UNCHANGED <<family, views, iter, vi, hist>>

\* _AltMaxVarLoop._initialize(views)
LoopInitialize ==
    /\ family = "shape"
    /\ pc = "scores"
    /\ IF InitializeRaises(loop.scores)
       THEN /\ est' = [est EXCEPT !.raised = "IndexError"]
            /\ pc' = "raised"
            /\ loop' = loop
       ELSE /\ loop' = [loop EXCEPT !.weights =
                           [i \in ViewIds |-> InitialWeightShape(views[i], loop.scores)]]
            /\ pc' = "sweep"
            /\ est' = est
    /\ UNCHANGED <<family, views, iter, vi, hist>>

\* _AltMaxVarLoop._update_view: view_regs[i] regresses the (n, p_i) view on the (n, k)
\* target, which has the shape of the summed scores
ShapeUpdateView ==
    /\ family = "shape"
    /\ pc = "sweep"
    /\ loop' = [loop EXCEPT !.weights[vi] = <<views[vi], loop.scores[2]>>]
    /\ vi' = IF vi = NumViews THEN 1 ELSE vi + 1
    /\ pc' = IF vi = NumViews THEN "finish" ELSE "sweep"
    /\ UNCHANGED <<family, est, views, iter, hist>>

\* AltMaxVar._outer_loop lines 76-77: self.weights[i] = self.loop.weights[i]
ShapeOuterLoopFinish ==
    /\ family = "shape"
    /\ pc = "finish"
    /\ est' = [est EXCEPT !.weights = loop.weights]
    /\ pc' = "fitted"
    /\ UNCHANGED <<family, views, loop, iter, vi, hist>>

\* MCCA._setup_evp line 75
McaSetupEvp ==
    /\ family = "shape"
    /\ pc = "new"
    /\ est.cls = "MCCA"
    /\ est' = [est EXCEPT !.splits = Splits(views)]
    /\ pc' = "evp"
    /\ UNCHANGED <<family, views, loop, iter, vi, hist>>

\* MCCA._solve_evp
McaSolveEvp ==
    /\ family = "shape"
    /\ pc = "evp"
    /\ IF SolveEvpRaises(SumTo(views, NumViews), est.latent_dims)
       THEN /\ est' = [est EXCEPT !.raised = "ValueError"]
            /\ pc' = "raised"
       ELSE /\ LET b == EvpWeights(est.splits, SumTo(views, NumViews), est.latent_dims)
               IN  est' = [est EXCEPT !.blocks = b,
                             !.weights = [i \in ViewIds |->
                                            <<b[i].rows.hi - b[i].rows.lo, b[i].cols>>]]
            /\ pc' = "fitted"
    /\ UNCHANGED <<family, views, loop, iter, vi, hist>>

------------------------------------------------------------------------------
(* Per-view hyperparameters: ElasticCCA._check_params, the linear              *)
(* AltMaxVar._check_params / _get_proximal and _proximal_operators.  Parameter *)
(* values are written as strings; a parameter is given unset (None), as a      *)
(* scalar or as a list.                                                        *)

\* PROXIMAL_OPERATORS: the names of the registry
ProximalOperatorNames ==
    {"L0", "L0Ball", "L1", "L1Ball", "L2", "L21", "L21_plus_L1", "Nuclear",
     "NuclearBall", "Log", "Log1", "Euclidean", "EuclideanBall"}
\* PROXIMAL_PARAMS: the names that have a parameter filter
ProximalParamNames ==
    {"Dummy", "L0", "L0Ball", "L1", "L1Ball", "L2", "L21", "L21_plus_L1", "TV",
     "Nuclear", "NuclearBall", "Log", "Log1", "Euclidean", "TVL1"}

\* the proximal arguments a caller passes: registered names, names outside the
\* registry, and "<callable>" for a callable
ProximalGiven == {"L1", "EuclideanBall", "TV", "lasso", "<callable>"}

ParamNone == [kind |-> "none", s |-> "", l |-> <<>>]
ParamScalar(x) == [kind |-> "scalar", s |-> x, l |-> <<>>]
ParamList(q) == [kind |-> "list", s |-> "", l |-> q]
\* a parameter as a caller can give it, with lists of 1 .. NumViews + 1 entries
ParamsGiven(vals) ==
    {ParamNone} \cup {ParamScalar(x) : x \in vals}
    \cup {ParamList([j \in 1..n |-> x]) : n \in 1..(NumViews + 1), x \in vals}
ProximalParamsGiven ==
    {ParamNone} \cup {ParamScalar(x) : x \in ProximalGiven}
    \cup {ParamList(q) : q \in [ViewIds -> ProximalGiven]}
    \cup {ParamList(<<"L1">>)}

\* a scalar is repeated once too often
ProcessParameterNoBroadcast(param, default, n) ==
    IF param.kind = "none" THEN [raised |-> FALSE, v |-> [j \in 1..n |-> default]]
    ELSE IF param.kind = "scalar" THEN [raised |-> FALSE, v |-> [j \in 1..(n + 1) |-> param.s]]
    ELSE [raised |-> Len(param.l) # n, v |-> param.l]

\* _process_parameter(name, parameter, default, n_views): the default or the scalar
\* repeated n_views times, a list checked for its length
ProcessParameterSeq(param, default, n) ==
    IF param.kind = "none" THEN [raised |-> FALSE, v |-> [j \in 1..n |-> default]]
    ELSE IF param.kind = "scalar" THEN [raised |-> FALSE, v |-> [j \in 1..n |-> param.s]]
    ELSE [raised |-> Len(param.l) # n, v |-> param.l]

\* _proximal_operators(proximal, **params) with the sigma/positive parameters
\* _get_proximal passes: an operator, None (the function falls off its end), or the
\* KeyError of PROXIMAL_PARAMS[proximal]
ProximalOperators(name) ==
    IF name \in ProximalOperatorNames
    THEN IF name \in ProximalParamNames THEN "operator" ELSE "KeyError"
    ELSE IF name = "<callable>" THEN "operator"
    ELSE "None"

CfgEstimator(c, a, b, d) ==
    [cls |-> c, params |-> <<a, b, d>>, valid |-> <<>>, operators |-> <<>>,
     stochastic_arg |-> FALSE, stochastic |-> FALSE, warned |-> FALSE,
     regressors |-> <<>>, raised |-> "none"]

\* ElasticCCA.__init__ lines 94-100: self.stochastic, and the warning, for the
\* arguments positive and stochastic
ElasticStochastic(e, positive, stochastic) ==
    LET off == positive.kind # "none" /\ stochastic
    IN  [e EXCEPT !.stochastic_arg = stochastic,
                  !.stochastic = IF off THEN FALSE ELSE stochastic,
                  !.warned = off]

\* _ElasticInnerLoop._initialize lines 259-290: the regressor built for one view
Regressor(stochastic, alpha) ==
    IF stochastic THEN "SGDRegressor" ELSE IF alpha = "0" THEN "Ridge" ELSE "ElasticNet"

\* ElasticCCA.__init__ (c, l1_ratio, positive, stochastic) / AltMaxVar.__init__
\* (proximal, positive, tau)
CfgInit ==
    /\ views = [i \in ViewIds |-> 1]
    /\ \/ \E a \in ParamsGiven({"0.1"}), b \in ParamsGiven({"0.5"}),
             d \in ParamsGiven({"True", "False"}), st \in BOOLEAN :
            est = ElasticStochastic(CfgEstimator("ElasticCCA", a, b, d), d, st)
       \/ \E a \in ProximalParamsGiven, b \in ParamsGiven({"True"}), d \in ParamsGiven({"0.5"}) :
            est = CfgEstimator("AltMaxVar", a, b, d)
    /\ loop = 0
    /\ pc = "new"
    /\ iter = 0
    /\ vi = 1
    /\ hist = <<>>

\* the defaults _check_params hands to _process_parameter, in the order of the calls
CfgDefaults(c) == IF c = "ElasticCCA" THEN <<"0", "0", "False">> ELSE <<"L1", "False", "0">>

\* ElasticCCA._check_params / AltMaxVar._check_params
CfgCheckParams ==
    /\ family = "cfg"
    /\ pc = "new"
    /\ LET r == [j \in 1..3 |-> ProcessParameterSeq(est.params[j], CfgDefaults(est.cls)[j],
                                                      NumViews)]
           lenBad == \E j \in 1..3 : r[j].raised
           ops == [i \in ViewIds |-> ProximalOperators(r[1].v[i])]
           keyBad == est.cls = "AltMaxVar" /\ \E i \in ViewIds : ops[i] = "KeyError"
       IN  IF lenBad
           THEN /\ est' = [est EXCEPT !.raised = "ValueError"]
                /\ pc' = "raised"
                /\ hist' = hist
           ELSE IF keyBad
           THEN /\ est' = [est EXCEPT !.raised = "KeyError",
                                      !.valid = [j \in 1..3 |-> r[j].v]]
                /\ pc' = "raised"
                /\ hist' = hist
           ELSE /\ est' = [est EXCEPT !.valid = [j \in 1..3 |-> r[j].v],
                              !.operators = IF est.cls = "AltMaxVar" THEN ops ELSE <<>>]
                /\ pc' = "checked"
                /\ hist' = [j \in 1..3 |-> r[j].v]
    /\ UNCHANGED <<family, views, loop, iter, vi>>

\* the optimization loop's use of view vi's parameters: _ElasticInnerLoop._initialize
\* reads c, l1_ratio and positive and builds the view's regressor;
\* AltMaxVarLoop.training_step calls self.proximal_operators[i].prox, which fails on
\* None
CfgLoopStep ==
    /\ family = "cfg"
    /\ pc = "checked"
    /\ IF est.cls = "AltMaxVar" /\ est.operators[vi] = "None"
       THEN /\ est' = [est EXCEPT !.raised = "AttributeError"]
            /\ pc' = "raised in loop"
            /\ vi' = vi
       ELSE /\ est' = IF est.cls = "ElasticCCA"
                      THEN [est EXCEPT !.regressors =
                               Append(@, Regressor(est.stochastic, est.valid[1][vi]))]
                      ELSE est
            /\ pc' = IF vi = NumViews THEN "stepped" ELSE "checked"
            /\ vi' = IF vi = NumViews THEN 1 ELSE vi + 1
    /\ UNCHANGED <<family, views, loop, iter, hist>>

------------------------------------------------------------------------------
(* _ElasticInnerLoop._update_view in SUMCOR mode, with exact arithmetic.  The  *)
(* view is the column (x, 0, ..., 0) of n observations and one feature, the    *)
(* weight a scalar w, so ||view @ w|| = |x * w|; n is a perfect square and a   *)
(* rescaled weight is the fraction num / den.                                  *)

MaxWeight == 2

SumcorViewVals == {-2, -1, 0, 1, 2}
\* _elastic_solver: the regularised least-squares coefficient; for an all-zero view
\* the fit term does not depend on w and the penalty leaves 0
SumcorSolverOutcomes(x) == IF x = 0 THEN {0} ELSE -MaxWeight..MaxWeight

\* np.linalg.norm(views[i] @ w) / np.sqrt(self.n), as a fraction
RescaleDivisor(x, w, n) == [num |-> Abs(x * w), den |-> ISqrt(n)]

\* the rescale without the sqrt(n) factor
RescaledWeightUnitNorm(x, w, n) == [num |-> w, den |-> Abs(x * w)]

\* _ElasticInnerLoop._update_view lines 310-313: w / (norm / sqrt(n))
RescaledWeight(x, w, n) ==
    [num |-> w * RescaleDivisor(x, w, n).den, den |-> RescaleDivisor(x, w, n).num]

SumcorInit ==
    /\ views \in [ViewIds -> SumcorViewVals]
    /\ \E n \in FeatureCounts, i \in ViewIds :
         /\ est = [cls |-> "ElasticCCA", maxvar |-> FALSE, n |-> n, raised |-> "none"]
         /\ vi = i
    /\ loop = [weights |-> [i \in ViewIds |-> [num |-> 0, den |-> 1]],
               scores |-> [i \in ViewIds |-> [num |-> 0, den |-> 1]]]
    /\ pc = "view"
    /\ iter = 0
    /\ hist = [solved |-> 0, divided |-> FALSE, divisor |-> [num |-> 0, den |-> 1]]

\* _ElasticInnerLoop._update_view lines 302-314 for view vi in SUMCOR mode
SumcorUpdateView ==
    /\ family = "sumcor"
    /\ pc = "view"
    /\ \E w \in SumcorSolverOutcomes(views[vi]) :
         IF CheckConvergedWeightsRaises(w)
         THEN /\ loop' = [loop EXCEPT !.weights[vi] = [num |-> w, den |-> 1]]
              /\ est' = [est EXCEPT !.raised = "DegenerateWeightsError"]
              /\ pc' = "raised"
              /\ hist' = [hist EXCEPT !.solved = w]
         ELSE LET w2 == RescaledWeight(views[vi], w, est.n)
              IN  /\ loop' = [loop EXCEPT !.weights[vi] = w2,
                                 !.scores[vi] = [num |-> views[vi] * w2.num, den |-> w2.den]]
                  /\ est' = est
                  /\ pc' = "updated"
                  /\ hist' = [solved |-> w, divided |-> TRUE,
                              divisor |-> RescaleDivisor(views[vi], w, est.n)]
    /\ UNCHANGED <<family, views, iter, vi>>

------------------------------------------------------------------------------
(* The convergence trace over repeated fit calls *)
(* AltMaxVar.fit called up to MaxFits times on one estimator.  A whole inner  *)
(* iteration is one step here: its outcome is the objective value it records. *)

\* the values _AltMaxVarLoop._objective returns in this component
TraceObjectiveVals == 0..2

TraceInit ==
    /\ views = [i \in ViewIds |-> 1]
    /\ \E mi \in 1..MaxIter :
         est = [cls |-> "AltMaxVar", maxvar |-> TRUE, max_iter |-> mi, tol |-> 1,
                weights |-> [i \in ViewIds |-> 0],
                track |-> [converged |-> FALSE, objective |-> <<>>],
                warned |-> FALSE, raised |-> "none"]
    /\ loop = SetLoopParams(est)
    /\ pc = "new"
    /\ iter = 0
    /\ vi = 1
    /\ hist = [fits |-> 0]

\* AltMaxVar._outer_loop lines 69-75: every fit call builds a new loop object, whose
\* track starts empty
TraceFitStart ==
    /\ family = "trace"
    /\ pc \in {"new", "done"}
    /\ hist.fits < MaxFits
    /\ loop' = SetLoopParams(est)
    /\ pc' = "iterating"
    /\ iter' = 0
    /\ hist' = [hist EXCEPT !.fits = @ + 1]
    /\ UNCHANGED <<family, est, views, vi>>

\* _BaseInnerLoop._fit, one pass of its for loop: _inner_iteration, then the objective
\* is appended to track["objective"] and _early_stop is asked from the second pass on
TraceIteration ==
    /\ family = "trace"
    /\ pc = "iterating"
    /\ \E o \in TraceObjectiveVals :
         loop' = RecordObjective(loop, o, est.cls, iter)
    /\ iter' = iter + 1
    /\ pc' = IF loop'.track.converged \/ iter' >= loop.max_iter THEN "finish" ELSE "iterating"
    /\ UNCHANGED <<family, est, views, vi, hist>>

\* AltMaxVar._outer_loop lines 76-80
TraceFitFinish ==
    /\ family = "trace"
    /\ pc = "finish"
    /\ est' = OuterLoopResult(est, loop)
    /\ pc' = "done"
    /\ UNCHANGED <<family, views, loop, iter, vi, hist>>

------------------------------------------------------------------------------
Init ==
    \/ family = "models" /\ ModelsInit
    \/ family = "stop" /\ StopInit
    \/ family = "pmd" /\ PmdInit
    \/ family = "prox" /\ ProxInit
    \/ family = "base" /\ BaseInit
    \/ family = "grid" /\ GridInit
    \/ family = "shape" /\ ShapeInit
    \/ family = "cfg" /\ CfgInit
    \/ family = "sumcor" /\ SumcorInit
    \/ family = "trace" /\ TraceInit

Next ==
    \/ OuterLoopStart
    \/ UpdateTarget
    \/ AltMaxVarUpdateView
    \/ ElasticUpdateView
    \/ EndIteration
    \/ OuterLoopFinish
    \/ ApplyEarlyStop
    \/ PmdSetParams
    \/ PmdFit
    \/ PmdValidate
    \/ PmdInitialize
    \/ PmdUpdateWeights
    \/ ProxStepBegin
    \/ ProxSubStep
    \/ ProxNextView
    \/ ProxStepEnd
    \/ ProxRefit
    \/ BaseFit
    \/ BaseTransform
    \/ GridSetParams
    \/ GridFitFold
    \/ GridPredict
    \/ GridRefit
    \/ InitializationCall
    \/ LoopInitialize
    \/ ShapeUpdateView
    \/ ShapeOuterLoopFinish
    \/ McaSetupEvp
    \/ McaSolveEvp
    \/ CfgCheckParams
    \/ CfgLoopStep
    \/ SumcorUpdateView
    \/ TraceFitStart
    \/ TraceIteration
    \/ TraceFitFinish

Spec == Init /\ [][Next]_vars

FairSpec == Spec /\ WF_vars(Next)

------------------------------------------------------------------------------
(* Claims *)

LoopTerminated == pc \in {"finish", "done"}
Converged == LoopTerminated /\ loop.track.converged
MaxIterationsReached == LoopTerminated /\ ~loop.track.converged /\ iter = est.max_iter
LastTwo(o) == <<o[Len(o) - 1], o[Len(o)]>>

GaussSeidelScores(j) == [i \in ViewIds |-> IF i < j THEN loop.scores[i] ELSE hist.start[i]]

\* C2: within one outer iteration the views are updated in the order 0..N-1 and the
\* target of view j's update is built from the scores of the views i < j as updated in
\* this sweep, not from their values at the start of the sweep.
C2_GaussSeidel ==
    /\ (family = "models" /\ est.cls = "ElasticCCA" /\ pc \in {"view", "objective"}) =>
        /\ hist.updated = 1..(IF pc = "view" THEN vi - 1 ELSE NumViews)
        /\ \A j \in hist.updated :
             hist.read[j] = IF loop.maxvar THEN UnitScale(SumViews(GaussSeidelScores(j)))
                            ELSE GaussSeidelScores(j)[PrevView(j)]
    /\ (family = "pmd" /\ pc \in {"sweep", "fitted"}) =>
        /\ hist.updated = 1..(IF pc = "sweep" THEN vi - 1 ELSE NumViews)
        /\ \A j \in hist.updated :
             LET gs == [i \in ViewIds |-> IF i = j THEN 0
                                          ELSE IF i < j THEN PmdScores(est, views)[i]
                                          ELSE hist.start[i]]
                 c == Mul(views[j].x, SumViews(gs))
             IN  hist.read[j] = IF est.positive.v[j] /\ Less(c, 0) THEN 0 ELSE c

C2_Witness ==
    /\ family = "models" /\ est.cls = "ElasticCCA" /\ pc = "objective"
    /\ loop.scores[1] # hist.start[1]
    /\ \E j \in hist.updated : j > 1 /\ hist.read[j] # ElasticTargetJacobi(loop, j)

\* C3 (as stated): in every MAXVAR-style loop (AltMaxVar, ElasticCCA in MAXVAR mode)
\* the target is computed once per outer iteration and every view of the sweep reads
\* the same target.
C3_OneTargetPerSweep ==
    (family = "models" /\ loop.maxvar /\ pc \in {"view", "objective"}) =>
        /\ hist.targets = 1
        /\ \A i, j \in hist.updated : hist.read[i] = hist.read[j]

\* C3 (amended): in the AltMaxVar loop G is computed once per outer iteration, before
\* any view is updated, and no view update modifies it: every view of the sweep reads
\* the G the loop still holds.
C3_AltMaxVarTarget ==
    /\ (family = "models" /\ est.cls = "AltMaxVar") =>
        /\ (pc \in {"view", "objective"} => hist.targets = 1)
        /\ (pc = "target" => hist.targets = 0 /\ hist.updated = {})
        /\ \A i \in hist.updated : hist.read[i] = loop.G
    /\ family = "prox" =>
        /\ (pc \in {"sub", "loss"} =>
              /\ hist.targets = 1
              /\ \A i \in hist.updated : hist.read[i] = loop.G)

C3_Witness ==
    /\ family = "models" /\ est.cls = "AltMaxVar" /\ pc = "objective"
    /\ hist.updated = ViewIds
    /\ loop.weights[1] = 1 /\ loop.G = -1

\* C4: the ElasticCCA loop's early stop holds if and only if the absolute difference
\* of the last two recorded objective values is strictly below the configured tol.
C4_ElasticEarlyStopIff ==
    (family = "stop" /\ est.cls = "ElasticCCA" /\ pc = "checked") =>
        LET o == LastTwo(loop.track.objective)
        IN  loop.track.converged <=>
              (o[1] # NaN /\ o[2] # NaN /\ Abs(o[1] - o[2]) < est.tol)

C4_Witness ==
    /\ family = "stop" /\ est.cls = "ElasticCCA" /\ pc = "checked"
    /\ ~loop.track.converged
    /\ Less(loop.track.objective[1], loop.track.objective[2])

\* C5: the AltMaxVar loop declares convergence exactly when objective[t-1] -
\* objective[t] is below the tol configured on the estimator.
C5_SignedDecreaseAgainstTol ==
    (family \in {"models", "stop"} /\ est.cls = "AltMaxVar"
       /\ pc \in {"checked", "target", "done"} /\ Len(loop.track.objective) >= 2) =>
        LET o == LastTwo(loop.track.objective)
        IN  loop.track.converged <=> Less(Sub(o[1], o[2]), est.tol)

\* C6: when the inner loop ends without converging, fit raises nothing: it warns, the
\* trace's converged flag is False and the estimator holds the loop's last weights.
C6_NotConvergedWarns ==
    (family = "models" /\ pc = "done" /\ ~loop.track.converged) =>
        /\ est.raised = "none"
        /\ est.warned
        /\ ~est.track.converged
        /\ est.weights = loop.weights

C6_Witness ==
    /\ family = "models" /\ pc = "done" /\ ~loop.track.converged
    /\ est.weights[1] = 1 /\ est.max_iter = MaxIter

\* C7: a degenerate weight update (all-zero or NaN) aborts the fit in every strategy
\* and mode: the loop never goes on after one.
C7_DegenerateUpdateAborts ==
    (family = "models" /\ hist.degenerate # {}) => pc = "raised"

\* C8: _check_params raises on any tau entry below 0 or above 1, before any weight
\* update of that fit; an unset tau becomes 1 for every view, with a warning and
\* without an error.
C8_TauValidated ==
    family = "pmd" =>
        /\ (pc \in {"init", "sweep", "fitted"} =>
              est.tau.kind = "list" /\ \A i \in ViewIds : est.tau.v[i] \in 0..TauOne)
        /\ (pc = "raised" =>
              /\ est.raised = "ValueError"
              /\ \E i \in ViewIds : est.tau.v[i] < 0 \/ est.tau.v[i] > TauOne
              /\ hist.updated = {} /\ iter = 0)
        /\ ((pc \in {"init", "sweep", "fitted", "raised"} /\ hist.given.kind = "none") =>
              /\ pc # "raised"
              /\ est.warned
              /\ \A i \in ViewIds : est.tau.v[i] = TauOne)

C8_Witness ==
    /\ family = "pmd" /\ pc = "raised" /\ est.fits = MaxFits
    /\ hist.given.kind = "list" /\ hist.given.v[1] = TauOne /\ hist.given.v[NumViews] = -1

\* C9: after fit(A) then fit(B), every quantity the updates of the second fit use comes
\* from the second call's inputs and parameters: the L1 budgets SCCA_PMD hands to the
\* delta search are those of the current tau and feature counts, and the first target
\* of an AltMaxVar fit is built from that fit's scores alone.
C9_RefitRecreatesState ==
    /\ family = "pmd" =>
         \A i \in hist.updated :
            hist.budget[i] = Max(TauOne, est.tau.v[i] * ISqrt(views[i].p))
    /\ (family = "prox" /\ loop.hasG) =>
         hist.firstG \in TargetOutcomes(hist.firstScores)

\* C10: in a training step every view gets between 1 and T sub-steps, and fewer than T
\* only when that view's own successive iterates were indistinguishable.
C10_SubStepsPerView ==
    (family = "prox" /\ pc = "loss") =>
        \A i \in ViewIds :
            /\ hist.steps[i] \in 1..est.T
            /\ (hist.steps[i] < est.T => AllClose(hist.after[i], hist.before[i]))

\* C11: transform called on an estimator on which fit was never called fails with a
\* not-fitted error.
C11_TransformBeforeFitRaisesNotFitted ==
    (family = "base" /\ est.fits = 0 /\ hist.calls > 0) =>
        hist.last.result = "NotFittedError"

C13_CandidatesIsolated ==
    (family = "grid" /\ loop.jobs > 0) =>
        \A c \in Candidates :
            /\ (loop.pos[c] = "predict" \/ c \in hist.evaluated) => hist.fitRead[c] = c
            /\ c \in hist.evaluated =>
                 hist.scoreRead[c].weights = c /\ hist.scoreRead[c].fitBy = c

\* C14: the initializer rejects an unknown scheme name with an error whose message
\* names the offending value; the four known names never raise this error.
C14_UnknownSchemeNamed ==
    (family = "shape" /\ est.cls = "AltMaxVar" /\ pc # "new") =>
        IF est.initialization \in Schemes
        THEN est.raised # "ValueError"
        ELSE /\ est.raised = "ValueError"
             /\ \E j \in 1..Len(est.message) : est.message[j] = est.initialization

\* C15: for every known scheme, random included, the initializer returns scores of
\* shape (n, latent_dimensions) per view, so the loop's weight initialization can read
\* the latent dimension from them.
C15_ScoresShape ==
    (family = "shape" /\ est.cls = "AltMaxVar" /\ est.initialization \in Schemes
       /\ pc # "new") =>
        /\ loop.scores = <<est.n, est.latent_dims>>
        /\ est.raised = "none"

C16_UnknownProximalRejected ==
    (family = "cfg" /\ est.cls = "AltMaxVar" /\ pc # "new" /\ est.raised # "ValueError"
       /\ \E i \in ViewIds : est.valid[1][i] \notin ProximalOperatorNames \cup {"<callable>"}) =>
        /\ pc = "raised"
        /\ \A i \in 1..Len(est.operators) : est.operators[i] # "None"

\* C18: after validation every per-view hyperparameter is a sequence with one entry
\* per view, whether it was given as a scalar, a sequence or not at all, and the
\* optimization loop does not change it.
C18_PerViewParams ==
    (family = "cfg" /\ pc \in {"checked", "stepped", "raised in loop"}) =>
        /\ \A j \in 1..3 :
             /\ Len(est.valid[j]) = NumViews
             /\ est.params[j].kind = "scalar" =>
                  \A i \in ViewIds : est.valid[j][i] = est.params[j].s
             /\ est.params[j].kind = "none" =>
                  \A i \in ViewIds : est.valid[j][i] = CfgDefaults(est.cls)[j]
             /\ est.params[j].kind = "list" => est.valid[j] = est.params[j].l
        /\ est.valid = hist

C18_Witness ==
    /\ family = "cfg" /\ pc = "stepped" /\ est.cls = "ElasticCCA"
    /\ est.params[1].kind = "scalar" /\ est.params[2].kind = "list"
    /\ est.params[3].kind = "none"
    /\ est.valid = <<[i \in ViewIds |-> "0.1"], [i \in ViewIds |-> "0.5"],
                     [i \in ViewIds |-> "False"]>>

C21_TracePerIteration ==
    /\ [](family \in {"models", "trace"} =>
            /\ Len(loop.track.objective) = iter
            /\ (pc = "done" => est.track = loop.track))
    /\ [][(family \in {"models", "trace"}) =>
            (LET o == loop.track.objective
                 o2 == loop'.track.objective
             IN  \/ o2 = o
                 \/ Len(o2) = Len(o) + 1 /\ SubSeq(o2, 1, Len(o)) = o
                 \/ o2 = <<>> /\ pc \in {"new", "done"} /\ pc' # pc)]_vars

\* a second fit call on the same estimator has completed two iterations: its trace
\* holds two values while the estimator still shows the trace of the first fit
C21_Witness ==
    /\ family = "trace"
    /\ hist.fits = 2
    /\ pc = "iterating"
    /\ iter = 2
    /\ Len(loop.track.objective) = 2
    /\ Len(est.track.objective) = 3

\* the scores view j's update saw from the other views: those of the views before j as
\* updated in this sweep, those of the views after j as the sweep found them
OtherScoresAt(j) ==
    [i \in ViewIds |-> IF i = j THEN 0
                       ELSE IF i < j THEN PmdScores(est, views)[i]
                       ELSE hist.start[i]]
UnclippedCandidate(j) == Mul(views[j].x, SumViews(OtherScoresAt(j)))

\* C22: in the SCCA_PMD update of view i the candidate is View[i] transposed times the
\* sum of the current scores of the views j # i, view i's own score left out; with
\* positive[i] set a negative candidate entry is zero before the delta search, which
\* is handed the clipped candidate.
C22_PmdCandidate ==
    (family = "pmd" /\ pc \in {"sweep", "fitted"}) =>
        \A i \in hist.updated :
            /\ (~est.positive.v[i] => hist.read[i] = UnclippedCandidate(i))
            /\ (est.positive.v[i] =>
                  /\ ~Less(hist.read[i], 0)
                  /\ hist.read[i] = IF Less(UnclippedCandidate(i), 0) THEN 0
                                    ELSE UnclippedCandidate(i))
            /\ est.weights[i].w \in DeltaSearchOutcomes(hist.read[i], hist.budget[i])

\* positive is set, the other views' scores make the candidate of view 1 negative and
\* view 1's own score is not zero: the delta search was handed a zero
C22_Witness ==
    /\ family = "pmd" /\ pc \in {"sweep", "fitted"}
    /\ 1 \in hist.updated
    /\ est.positive.v[1]
    /\ Less(UnclippedCandidate(1), 0)
    /\ hist.read[1] = 0
    /\ hist.start[1] # 0

PmdTraceNonDecreasing ==
    \A k \in 1..(Len(est.track) - 1) : ~Less(est.track[k + 1], est.track[k])

C27_TrainingStepReturnsLoss ==
    (family = "prox" /\ (loop.tracking \/ loop.convergence_checking)) =>
        est.raised = "none"

\* the sum of the correlations over the ordered pairs of distinct views minus the
\* penalties, times 2
PmdObjectiveDistinctPairs ==
    LET scores == PmdScores(est, views)
        row(i) == SumViews([j \in ViewIds |->
                     IF j = i THEN 0 ELSE PmdCorr(scores[i], scores[j])])
        pen == SumViews([i \in ViewIds |->
                  Mul(est.tau.v[i], IF IsNaN(est.weights[i].w) THEN NaN
                                    ELSE Abs(est.weights[i].w))])
    IN  Sub(Mul(2, SumViews([i \in ViewIds |-> row(i)])), pen)

\* C28: the objective SCCA_PMD records for an epoch is the sum of the pairwise
\* correlations of the transformed views over the pairs of distinct views, no view's
\* correlation with itself included, minus the sum over the views of tau[i] times the
\* norm of the view's weights.
C28_PmdObjectiveExcludesSelf ==
    (family = "pmd" /\ pc \in {"sweep", "fitted"} /\ vi = 1 /\ Len(est.track) > 0) =>
        est.track[Len(est.track)] = PmdObjectiveDistinctPairs

\* C26: after each full sweep the objective of the ElasticCCA inner loop evaluates
\* without error (to the sum over the views of the fit term, the l1 penalty and the l2
\* penalty), for any list of N >= 2 views.
C26_ElasticObjectiveEvaluates ==
    (family = "models" /\ est.cls = "ElasticCCA") =>
        /\ est.raised # "TypeError"
        /\ (pc \in {"finish", "done"} => Len(loop.track.objective) >= 1)

\* no view is constrained to be positive: positive is unset, or False for every view
NoViewPositive ==
    \/ est.params[3].kind = "none"
    \/ est.params[3].kind = "scalar" /\ est.params[3].s = "False"
    \/ est.params[3].kind = "list" /\
          \A j \in 1..Len(est.params[3].l) : est.params[3].l[j] = "False"

\* C29: an ElasticCCA built with stochastic=True and no view constrained to be positive
\* keeps stochastic on, without the warning, and its inner loop builds an SGD regressor
\* for every view.
C29_StochasticKeptWithoutPositive ==
    (family = "cfg" /\ est.cls = "ElasticCCA" /\ est.stochastic_arg /\ NoViewPositive
       /\ pc = "stepped") =>
        /\ est.stochastic
        /\ ~est.warned
        /\ \A i \in ViewIds : est.regressors[i] = "SGDRegressor"

\* C30: every name of PROXIMAL_OPERATORS has an entry in PROXIMAL_PARAMS, so building a
\* registered kind with parameter filtering never fails on the table lookup: an
\* AltMaxVar whose proximal names are all registered passes _check_params with an
\* operator for every view.
C30_RegistryConsistent ==
    (family = "cfg" /\ est.cls = "AltMaxVar" /\ pc # "new" /\ est.raised # "ValueError"
       /\ \A i \in ViewIds : est.valid[1][i] \in ProximalOperatorNames) =>
        /\ est.raised = "none"
        /\ \A i \in ViewIds : est.operators[i] = "operator"

====
